---------------------------- MODULE Spec2Model ----------------------------
(***************************************************************************)
(* A model of the Active Arena server (src/index.js): the express routes   *)
(* that write the MongoDB collections, each handler one atomic action.     *)
(* A handler is an operator from the store and the request to its outcome: *)
(* the collections as it leaves them and the HTTP status it answers; the   *)
(* action of the handler applies that operator to the store.               *)
(*                                                                         *)
(* Conventions for JavaScript values:                                      *)
(*   - an ObjectId string is a number: NoId (-1) is an absent value,       *)
(*     BadId (0) is a string that `new ObjectId(..)` rejects by throwing,  *)
(*     every n >= 1 is a well-formed ObjectId;                             *)
(*   - an absent or empty string is "";                                    *)
(*   - a number is kept in hundredths (20.00 is 2000), NaN apart;          *)
(*   - a string handed to parseFloat is a tuple of one-character strings.  *)
(* A timestamp (new Date()) is 0 once written and -1 while the field is    *)
(* absent; whether two readings of the clock fall in the same millisecond  *)
(* is a choice of the environment.                                         *)
(* The booking fields `date` and `createdAt` are written once and read by  *)
(* no handler; the documents of the model leave them out. Every request to *)
(* a route behind verifyToken carries a valid token.                       *)
(***************************************************************************)
EXTENDS Integers, Sequences, FiniteSets, TLC

\* ------------------------------------------------------------- bounds
\* Documents inserted over a run, over all collections (ObjectIds handed out).
MaxDocs == 2

\* ------------------------------------------------------------- values
NoId == 0 - 1
BadId == 0

IsObjectId(x) == x >= 1

Emails == {"a@x.io", "b@x.io"}

Undef == [t |-> "undef", c |-> 0, s |-> <<>>]
Num(c) == [t |-> "num", c |-> c, s |-> <<>>]
Str(s) == [t |-> "str", c |-> 0, s |-> s]
Arr(s) == [t |-> "arr", c |-> 0, s |-> s]

NaN == [nan |-> TRUE, c |-> 0]
Number(c) == [nan |-> FALSE, c |-> c]

\* !v of JavaScript: undefined, 0, NaN and "" are falsy; an array is truthy.
Truthy(v) ==
  CASE v.t = "undef" -> FALSE
    [] v.t = "num" -> v.c # 0
    [] v.t = "str" -> Len(v.s) > 0
    [] OTHER -> TRUE

Digits == <<"0", "1", "2", "3", "4", "5", "6", "7", "8", "9">>

IsDigit(ch) == \E i \in 1..10 : Digits[i] = ch

DigitVal(ch) == (CHOOSE i \in 1..10 : Digits[i] = ch) - 1

\* The digits of s from position i on: <<value, digits read>>.
RECURSIVE ReadDigits(_, _, _, _)
ReadDigits(s, i, acc, n) ==
  IF i <= Len(s) /\ IsDigit(s[i])
  THEN ReadDigits(s, i + 1, acc * 10 + DigitVal(s[i]), n + 1)
  ELSE <<acc, n>>

\* parseFloat of a string: an optional sign, digits, an optional fraction;
\* parsing stops at the first character that fits no more, NaN when no digit
\* was read. The value is in hundredths; fraction digits past the second are
\* dropped.
ParseFloatStr(s) ==
  LET neg == Len(s) >= 1 /\ s[1] = "-"
      start == IF Len(s) >= 1 /\ (s[1] = "-" \/ s[1] = "+") THEN 2 ELSE 1
      int == ReadDigits(s, start, 0, 0)
      dot == start + int[2]
      hasDot == dot <= Len(s) /\ s[dot] = "."
      d1 == IF hasDot /\ dot + 1 <= Len(s) /\ IsDigit(s[dot + 1])
            THEN DigitVal(s[dot + 1]) ELSE 0
      hasD1 == hasDot /\ dot + 1 <= Len(s) /\ IsDigit(s[dot + 1])
      d2 == IF hasD1 /\ dot + 2 <= Len(s) /\ IsDigit(s[dot + 2])
            THEN DigitVal(s[dot + 2]) ELSE 0
      mag == int[1] * 100 + d1 * 10 + d2
  IN IF int[2] = 0 /\ ~hasD1 THEN NaN
     ELSE Number(IF neg THEN 0 - mag ELSE mag)

\* parseFloat(v): a number is itself, a string is parsed, the rest is NaN.
ParseFloat(v) ==
  CASE v.t = "num" -> Number(v.c)
    [] v.t = "str" -> ParseFloatStr(v.s)
    [] OTHER -> NaN

\* ------------------------------------------------------------- state
VARIABLES
  bookingsCol,        \* _id -> booking document
  usersCol,           \* _id -> user document
  courtsCol,          \* _id -> court document
  couponsCol,         \* _id -> coupon document
  announcementsCol,   \* _id -> announcement document
  nextId,             \* the next ObjectId the driver generates
  statusTask          \* the PUT /bookings/:id/status request in flight

vars ==
  <<bookingsCol, usersCol, courtsCol, couponsCol, announcementsCol, nextId, statusTask>>

Empty == [x \in {} |-> 0]

\* insertOne: the document under the fresh _id.
InsertOne(col, id, doc) == [x \in DOMAIN col \cup {id} |-> IF x = id THEN doc ELSE col[x]]

\* deleteOne({_id: id}).
DeleteOne(col, id) == [x \in DOMAIN col \ {id} |-> col[x]]

\* updateOne({_id: id}, {$set: ..}): the document replaced by doc, if there.
UpdateOne(col, id, doc) == IF id \in DOMAIN col THEN [col EXCEPT ![id] = doc] ELSE col

\* result.matchedCount of that update.
MatchedCount(col, id) == IF id \in DOMAIN col THEN 1 ELSE 0

\* result.modifiedCount of that update: a $set that changes no field modifies
\* nothing.
ModifiedCount(col, id, doc) == IF id \in DOMAIN col /\ col[id] # doc THEN 1 ELSE 0

\* The locals of a PUT /bookings/:id/status handler between two awaits: where
\* it stands (pc), the request (id, status, userEmail, userId), the userEmail of
\* the booking findOne returned, the email resolved, whether the updateOne of
\* line 414 matched a document, whether the updateOne of line 423 did, and the
\* status answered. No request is in flight at the start.
Idle ==
  [pc |-> "idle", id |-> NoId, status |-> "", userEmail |-> "", userId |-> NoId,
   bookingEmail |-> "", emailToUpdate |-> "", matched |-> FALSE, promoted |-> FALSE,
   code |-> 0]

Init ==
  /\ bookingsCol = Empty
  /\ usersCol = Empty
  /\ courtsCol = Empty
  /\ couponsCol = Empty
  /\ announcementsCol = Empty
  /\ nextId = 1
  /\ statusTask = Idle

\* ------------------------------------------------------------- requests
\* An :id segment of a route is never absent.
ParamIds == {BadId} \cup (1..MaxDocs)

\* The ids a request to a collection is tried with: each document's, one that
\* is malformed and one that is well-formed and matches nothing.
TargetIds(col, fresh) == DOMAIN col \cup {BadId, fresh}

GoodSlots == Arr(<<"10:00-11:00">>)

\* A well-formed POST /bookings body; the other bodies differ from it in one
\* field.
GoodBooking ==
  [courtId |-> 1, userId |-> "u1", userEmail |-> "a@x.io", slots |-> GoodSlots,
   date |-> "2025-07-01", price |-> Num(2000)]

\* Prices a client may send: absent, 0, 20, -5, "abc", "0", "20", "0.5",
\* "-5", "12abc".
PriceInputs ==
  {Undef, Num(0), Num(2000), Num(0 - 500), Str(<<"a", "b", "c">>), Str(<<"0">>),
   Str(<<"2", "0">>), Str(<<"0", ".", "5">>), Str(<<"-", "5">>),
   Str(<<"1", "2", "a", "b", "c">>)}

BookingBodies ==
  {[GoodBooking EXCEPT !.price = p] : p \in {Undef, Num(0), Num(2000), Num(0 - 500)}}
  \cup {[GoodBooking EXCEPT !.courtId = c] : c \in {NoId, BadId}}
  \cup {[GoodBooking EXCEPT !.userId = ""], [GoodBooking EXCEPT !.userEmail = ""],
        [GoodBooking EXCEPT !.date = ""]}
  \cup {[GoodBooking EXCEPT !.slots = s] : s \in {Undef, Str(<<"1", "0">>), Arr(<<>>)}}

\* Bodies of PUT /bookings/:id/status for the bookings ids and the users uids.
StatusBodies(ids, uids) ==
  [id : ids, status : {"Approved", "Rejected"}, userEmail : {"", "b@x.io"},
   userId : {NoId}]
  \cup [id : ids, status : {"Approved"}, userEmail : {""}, userId : uids]
  \cup {[id |-> 1, status |-> "Confirmed", userEmail |-> "", userId |-> NoId]}

PaymentBodies(ids) ==
  [id : ids, paymentStatus : {"pending", "completed"}]
  \cup {[id |-> 1, paymentStatus |-> "paid"]}

SucceededType == "payment_intent.succeeded"

\* Deliveries to POST /stripe-webhook: whether the signature header matches
\* the raw body, and the event the body holds.
Events(ids) ==
  [sigOk : BOOLEAN, type : {SucceededType}, bookingId : ids \cup {NoId}, amount : {2000},
   id : {"pi_1"}]
  \cup [sigOk : BOOLEAN, type : {"payment_intent.payment_failed"}, bookingId : {1},
        amount : {2000}, id : {"pi_1"}]

SuccessBodies(ids) == [bookingId : ids \cup {NoId}, transactionId : {"tx_1"}]

UserBodies ==
  [name : {"Ann"}, email : Emails \cup {""}] \cup {[name |-> "", email |-> "a@x.io"]}

\* ------------------------------------------------------------- bookings
\* POST /bookings, the check of the body (line 377).
BookingBodyInvalid(b) ==
  \/ b.courtId = NoId
  \/ b.userId = ""
  \/ b.userEmail = ""
  \/ ~Truthy(b.slots)
  \/ b.slots.t # "arr"
  \/ Len(b.slots.s) = 0
  \/ b.date = ""
  \/ ~Truthy(b.price)

\* Mutant: the booking is born approved.
NewBooking_approved(b) ==
  [courtId |-> b.courtId, userId |-> b.userId, userEmail |-> b.userEmail,
   slots |-> b.slots.s, price |-> ParseFloat(b.price),
   status |-> "Approved", paymentStatus |-> "pending",
   transactionId |-> "", paidAt |-> 0 - 1]

\* POST /bookings, the document built from the body (lines 381-391).
NewBooking(b) ==
  [courtId |-> b.courtId, userId |-> b.userId, userEmail |-> b.userEmail,
   slots |-> b.slots.s, price |-> ParseFloat(b.price),
   status |-> "pending", paymentStatus |-> "pending",
   transactionId |-> "", paidAt |-> 0 - 1]

\* POST /bookings (lines 373-399): new ObjectId(courtId) throws on a
\* malformed id and the catch answers 500.
CreateBookingOutcome(bookings, id, b) ==
  IF BookingBodyInvalid(b) THEN [bookings |-> bookings, code |-> 400, insertedId |-> NoId]
  ELSE IF ~IsObjectId(b.courtId) THEN [bookings |-> bookings, code |-> 500, insertedId |-> NoId]
  ELSE [bookings |-> InsertOne(bookings, id, NewBooking(b)), code |-> 201, insertedId |-> id]

CreateBooking ==
  \E b \in BookingBodies :
    LET o == CreateBookingOutcome(bookingsCol, nextId, b) IN
    /\ o.insertedId # NoId => nextId <= MaxDocs
    /\ bookingsCol' = o.bookings
    /\ nextId' = IF o.insertedId # NoId THEN nextId + 1 ELSE nextId
    /\ UNCHANGED <<usersCol, courtsCol, couponsCol, announcementsCol, statusTask>>

\* PUT /bookings/:id/status, the $set of line 414.
StatusSet(doc, status) == [doc EXCEPT !.status = status]

\* Mutant: the booking's email is preferred to the supplied one.
FirstEmail_bookingFirst(userEmail, booking) ==
  IF booking.userEmail # "" THEN booking.userEmail ELSE userEmail

\* PUT /bookings/:id/status, line 416: the supplied email, else the booking's.
FirstEmail(userEmail, booking) == IF userEmail # "" THEN userEmail ELSE booking.userEmail

\* PUT /bookings/:id/status, lines 416-420: the email to promote ("" if none).
EmailToUpdate(userEmail, booking, userId, users) ==
  LET e == FirstEmail(userEmail, booking) IN
  IF e = "" /\ userId # NoId
  THEN IF userId \in DOMAIN users THEN users[userId].email ELSE ""
  ELSE e

\* Mutant: the promotion does not look at the new status.
Promotes_anyStatus(status, email) == email # ""

\* PUT /bookings/:id/status, the condition of line 422.
Promotes(status, email) == status = "Approved" /\ email # ""

\* usersCol.updateOne({email}, {$set: {role}}) (lines 423-426): the first
\* user of that email.
SetRole(users, email, role) ==
  LET hit == {u \in DOMAIN users : users[u].email = email} IN
  IF hit = {} THEN users
  ELSE LET u == CHOOSE x \in hit : \A y \in hit : x <= y
       IN [users EXCEPT ![u].role = role]

\* PUT /bookings/:id/status (lines 402-434). new ObjectId(userId) throws on a
\* malformed id, after the status was written.
SetBookingStatusOutcome(bookings, users, b) ==
  IF b.status \notin {"Approved", "Rejected"}
  THEN [bookings |-> bookings, users |-> users, code |-> 400]
  ELSE IF ~IsObjectId(b.id) THEN [bookings |-> bookings, users |-> users, code |-> 500]
  ELSE IF b.id \notin DOMAIN bookings THEN [bookings |-> bookings, users |-> users, code |-> 404]
  ELSE LET booking == bookings[b.id]
           written == UpdateOne(bookings, b.id, StatusSet(booking, b.status))
       IN IF FirstEmail(b.userEmail, booking) = "" /\ b.userId # NoId /\ ~IsObjectId(b.userId)
          THEN [bookings |-> written, users |-> users, code |-> 500]
          ELSE LET email == EmailToUpdate(b.userEmail, booking, b.userId, users) IN
               [bookings |-> written,
                users |-> IF Promotes(b.status, email)
                          THEN SetRole(users, email, "member") ELSE users,
                code |-> 200]

SetBookingStatus ==
  \E b \in StatusBodies(TargetIds(bookingsCol, nextId), DOMAIN usersCol \cup {BadId}) :
    LET o == SetBookingStatusOutcome(bookingsCol, usersCol, b) IN
    /\ bookingsCol' = o.bookings
    /\ usersCol' = o.users
    /\ UNCHANGED <<courtsCol, couponsCol, announcementsCol, nextId, statusTask>>

\* DELETE /<collection>/:id (lines 292-306, 437-451, 514-525, 615-629,
\* 701-715): the five handlers are the same but for the collection.
DeleteOutcome(col, id) ==
  IF ~IsObjectId(id) THEN [col |-> col, code |-> 500]
  ELSE [col |-> DeleteOne(col, id), code |-> IF id \in DOMAIN col THEN 200 ELSE 404]

\* DELETE /bookings/:id (lines 437-451).
DeleteBooking ==
  \E id \in TargetIds(bookingsCol, nextId) :
    /\ bookingsCol' = DeleteOutcome(bookingsCol, id).col
    /\ UNCHANGED <<usersCol, courtsCol, couponsCol, announcementsCol, nextId, statusTask>>

\* PUT /bookings/:id/payment, the $set of line 468.
PaymentSet(doc, paymentStatus) == [doc EXCEPT !.paymentStatus = paymentStatus]

\* PUT /bookings/:id/payment (lines 454-476).
PutBookingPaymentOutcome(bookings, b) ==
  IF b.paymentStatus \notin {"pending", "completed"} THEN [bookings |-> bookings, code |-> 400]
  ELSE IF ~IsObjectId(b.id) THEN [bookings |-> bookings, code |-> 500]
  ELSE IF b.id \notin DOMAIN bookings THEN [bookings |-> bookings, code |-> 404]
  ELSE [bookings |-> UpdateOne(bookings, b.id, PaymentSet(bookings[b.id], b.paymentStatus)),
        code |-> 200]

PutBookingPayment ==
  \E b \in PaymentBodies(TargetIds(bookingsCol, nextId)) :
    /\ bookingsCol' = PutBookingPaymentOutcome(bookingsCol, b).bookings
    /\ UNCHANGED <<usersCol, courtsCol, couponsCol, announcementsCol, nextId, statusTask>>

\* ------------------------------------------------------------- payments
\* Mutant: the event is parsed without verifying the signature.
SignatureVerified_skipped(ev) == TRUE

\* stripe.webhooks.constructEvent (lines 32-41) returns the event, or throws.
SignatureVerified(ev) == ev.sigOk

\* Mutant: the $set forgets the status.
WebhookSet_paymentOnly(doc) == [doc EXCEPT !.paymentStatus = "completed"]

\* POST /stripe-webhook, the $set of line 57.
WebhookSet(doc) == [doc EXCEPT !.paymentStatus = "completed", !.status = "Confirmed"]

\* Mutant: the result of the update is not looked at.
WebhookMissed_ignored(col, id, doc) == FALSE

\* Mutant: the check reads modifiedCount, as POST /payment-success does.
WebhookMissed_unmodified(col, id, doc) == ModifiedCount(col, id, doc) = 0

\* POST /stripe-webhook, the check of the update's result (line 60).
WebhookMissed(col, id, doc) == MatchedCount(col, id) = 0

\* POST /stripe-webhook (lines 25-76). Metadata without a bookingId, a
\* bookingId that new ObjectId rejects and an update that matches nothing all
\* end in the catch of line 65.
\* payments: the payment records the handler inserts, which are none.
StripeWebhookOutcome(bookings, ev) ==
  IF ~SignatureVerified(ev) THEN [bookings |-> bookings, payments |-> {}, code |-> 400]
  ELSE IF ev.type # SucceededType THEN [bookings |-> bookings, payments |-> {}, code |-> 200]
  ELSE IF ev.bookingId = NoId \/ ~IsObjectId(ev.bookingId)
  THEN [bookings |-> bookings, payments |-> {}, code |-> 500]
  ELSE LET doc == IF ev.bookingId \in DOMAIN bookings
                  THEN WebhookSet(bookings[ev.bookingId]) ELSE Empty
       IN [bookings |-> UpdateOne(bookings, ev.bookingId, doc),
           payments |-> {},
           code |-> IF WebhookMissed(bookings, ev.bookingId, doc) THEN 500 ELSE 200]

StripeWebhook ==
  \E ev \in Events(TargetIds(bookingsCol, nextId)) :
    /\ bookingsCol' = StripeWebhookOutcome(bookingsCol, ev).bookings
    /\ UNCHANGED <<usersCol, courtsCol, couponsCol, announcementsCol, nextId, statusTask>>

\* POST /payment-success, the $set of lines 725-729.
PaidSet(doc, transactionId) ==
  [doc EXCEPT !.paymentStatus = "paid", !.transactionId = transactionId, !.paidAt = 0]

\* POST /payment-success (lines 718-742). new ObjectId(undefined) is a fresh
\* id, which matches no document. sameMs: the clock reads what it read when
\* the stored paidAt was written, so that paidAt is not modified.
PaymentSuccessOutcome(bookings, b, sameMs) ==
  IF b.bookingId # NoId /\ ~IsObjectId(b.bookingId) THEN [bookings |-> bookings, code |-> 500]
  ELSE LET doc == IF b.bookingId \in DOMAIN bookings
                  THEN PaidSet(bookings[b.bookingId], b.transactionId) ELSE Empty
           modified == IF sameMs THEN ModifiedCount(bookings, b.bookingId, doc)
                       ELSE MatchedCount(bookings, b.bookingId)
       IN [bookings |-> UpdateOne(bookings, b.bookingId, doc),
           code |-> IF modified = 0 THEN 404 ELSE 200]

PaymentSuccess ==
  \E b \in SuccessBodies(TargetIds(bookingsCol, nextId)), sameMs \in BOOLEAN :
    /\ bookingsCol' = PaymentSuccessOutcome(bookingsCol, b, sameMs).bookings
    /\ UNCHANGED <<usersCol, courtsCol, couponsCol, announcementsCol, nextId, statusTask>>

\* ------------------------------------------------------------- users
\* POST /users (lines 492-511).
CreateUserOutcome(users, id, b) ==
  IF b.name = "" \/ b.email = "" THEN [users |-> users, code |-> 400, insertedId |-> NoId]
  ELSE IF \E u \in DOMAIN users : users[u].email = b.email
  THEN [users |-> users, code |-> 200, insertedId |-> NoId]
  ELSE [users |-> InsertOne(users, id, [email |-> b.email, role |-> "user"]),
        code |-> 201, insertedId |-> id]

CreateUser ==
  \E b \in UserBodies :
    LET o == CreateUserOutcome(usersCol, nextId, b) IN
    /\ o.insertedId # NoId => nextId <= MaxDocs
    /\ usersCol' = o.users
    /\ nextId' = IF o.insertedId # NoId THEN nextId + 1 ELSE nextId
    /\ UNCHANGED <<bookingsCol, courtsCol, couponsCol, announcementsCol, statusTask>>

\* DELETE /users/:id (lines 514-525).
DeleteUser ==
  \E id \in TargetIds(usersCol, nextId) :
    /\ usersCol' = DeleteOutcome(usersCol, id).col
    /\ UNCHANGED <<bookingsCol, courtsCol, couponsCol, announcementsCol, nextId, statusTask>>

\* ------------------------------------------------------------- courts
\* Bodies of POST /courts; type, image and availableSlots are always sent and
\* stored as sent, the documents of the model leave them out.
CourtBodies == [name : {"Court A", ""}, status : {""}, price : {Num(1500)}]

\* POST /courts (lines 230-255).
CreateCourtOutcome(courts, id, b) ==
  IF b.name = "" \/ ~Truthy(b.price) THEN [col |-> courts, code |-> 400, insertedId |-> NoId]
  ELSE [col |-> InsertOne(courts, id,
                          [name |-> b.name,
                           status |-> IF b.status # "" THEN b.status ELSE "Available",
                           price |-> ParseFloat(b.price)]),
        code |-> 201, insertedId |-> id]

CreateCourt ==
  \E b \in CourtBodies :
    LET o == CreateCourtOutcome(courtsCol, nextId, b) IN
    /\ o.insertedId # NoId => nextId <= MaxDocs
    /\ courtsCol' = o.col
    /\ nextId' = IF o.insertedId # NoId THEN nextId + 1 ELSE nextId
    /\ UNCHANGED <<bookingsCol, usersCol, couponsCol, announcementsCol, statusTask>>

\* PUT /courts/:id (lines 258-289), for a body that sets the status.
UpdateCourtOutcome(courts, id, status) ==
  IF ~IsObjectId(id) THEN [col |-> courts, code |-> 500]
  ELSE IF MatchedCount(courts, id) = 0 THEN [col |-> courts, code |-> 404]
  ELSE [col |-> UpdateOne(courts, id, [courts[id] EXCEPT !.status = status]), code |-> 200]

UpdateCourt ==
  \E id \in TargetIds(courtsCol, nextId), status \in {"Unavailable"} :
    /\ courtsCol' = UpdateCourtOutcome(courtsCol, id, status).col
    /\ UNCHANGED <<bookingsCol, usersCol, couponsCol, announcementsCol, nextId, statusTask>>

\* DELETE /courts/:id (lines 292-306).
DeleteCourt ==
  \E id \in TargetIds(courtsCol, nextId) :
    /\ courtsCol' = DeleteOutcome(courtsCol, id).col
    /\ UNCHANGED <<bookingsCol, usersCol, couponsCol, announcementsCol, nextId, statusTask>>

\* ------------------------------------------------------------- coupons
CouponBodies ==
  [code : {"SAVE10"}, discount : {Num(1000)}, status : {"active", "expired"}]
  \cup {[code |-> "", discount |-> Num(1000), status |-> "active"]}

\* POST /coupons (lines 543-573).
CreateCouponOutcome(coupons, id, b) ==
  IF b.code = "" \/ ~Truthy(b.discount) THEN [col |-> coupons, code |-> 400, insertedId |-> NoId]
  ELSE IF b.status \notin {"active", "inactive"}
  THEN [col |-> coupons, code |-> 400, insertedId |-> NoId]
  ELSE IF \E c \in DOMAIN coupons : coupons[c].code = b.code
  THEN [col |-> coupons, code |-> 400, insertedId |-> NoId]
  ELSE [col |-> InsertOne(coupons, id,
                          [code |-> b.code, discount |-> ParseFloat(b.discount),
                           status |-> b.status]),
        code |-> 201, insertedId |-> id]

CreateCoupon ==
  \E b \in CouponBodies :
    LET o == CreateCouponOutcome(couponsCol, nextId, b) IN
    /\ o.insertedId # NoId => nextId <= MaxDocs
    /\ couponsCol' = o.col
    /\ nextId' = IF o.insertedId # NoId THEN nextId + 1 ELSE nextId
    /\ UNCHANGED <<bookingsCol, usersCol, courtsCol, announcementsCol, statusTask>>

\* PUT /coupons/:id (lines 576-612), for a body that sets the status.
UpdateCouponOutcome(coupons, id, status) ==
  IF status \notin {"active", "inactive"} THEN [col |-> coupons, code |-> 400]
  ELSE IF ~IsObjectId(id) THEN [col |-> coupons, code |-> 500]
  ELSE IF MatchedCount(coupons, id) = 0 THEN [col |-> coupons, code |-> 404]
  ELSE [col |-> UpdateOne(coupons, id, [coupons[id] EXCEPT !.status = status]), code |-> 200]

UpdateCoupon ==
  \E id \in TargetIds(couponsCol, nextId), status \in {"inactive", "expired"} :
    /\ couponsCol' = UpdateCouponOutcome(couponsCol, id, status).col
    /\ UNCHANGED <<bookingsCol, usersCol, courtsCol, announcementsCol, nextId, statusTask>>

\* DELETE /coupons/:id (lines 615-629).
DeleteCoupon ==
  \E id \in TargetIds(couponsCol, nextId) :
    /\ couponsCol' = DeleteOutcome(couponsCol, id).col
    /\ UNCHANGED <<bookingsCol, usersCol, courtsCol, announcementsCol, nextId, statusTask>>

\* POST /validate-coupon (lines 157-181): the status and the discount.
ValidateCouponOutcome(coupons, code) ==
  IF code = "" THEN [code |-> 400, discount |-> NaN]
  ELSE LET hit == {c \in DOMAIN coupons :
                     coupons[c].code = code /\ coupons[c].status = "active"}
       IN IF hit = {} THEN [code |-> 404, discount |-> NaN]
          ELSE [code |-> 200, discount |-> coupons[CHOOSE c \in hit : TRUE].discount]

ValidateCoupon ==
  \E code \in {"SAVE10", ""} :
    /\ ValidateCouponOutcome(couponsCol, code).code \in {200, 400, 404}
    /\ UNCHANGED vars

\* ------------------------------------------------------------- announcements
AnnouncementBodies == [title : {"Open day", ""}, content : {"Sunday"}]

\* POST /announcements (lines 647-668).
CreateAnnouncementOutcome(anns, id, b) ==
  IF b.title = "" \/ b.content = "" THEN [col |-> anns, code |-> 400, insertedId |-> NoId]
  ELSE [col |-> InsertOne(anns, id, [title |-> b.title, content |-> b.content]),
        code |-> 201, insertedId |-> id]

CreateAnnouncement ==
  \E b \in AnnouncementBodies :
    LET o == CreateAnnouncementOutcome(announcementsCol, nextId, b) IN
    /\ o.insertedId # NoId => nextId <= MaxDocs
    /\ announcementsCol' = o.col
    /\ nextId' = IF o.insertedId # NoId THEN nextId + 1 ELSE nextId
    /\ UNCHANGED <<bookingsCol, usersCol, courtsCol, couponsCol, statusTask>>

\* PUT /announcements/:id (lines 671-698): the fields sent non-empty are set.
UpdateAnnouncementOutcome(anns, id, b) ==
  IF b.title = "" /\ b.content = "" THEN [col |-> anns, code |-> 400]
  ELSE IF ~IsObjectId(id) THEN [col |-> anns, code |-> 500]
  ELSE IF MatchedCount(anns, id) = 0 THEN [col |-> anns, code |-> 404]
  ELSE [col |-> UpdateOne(anns, id,
                          [title |-> IF b.title # "" THEN b.title ELSE anns[id].title,
                           content |-> IF b.content # "" THEN b.content
                                       ELSE anns[id].content]),
        code |-> 200]

UpdateAnnouncement ==
  \E id \in TargetIds(announcementsCol, nextId), b \in [title : {"Closed", ""}, content : {""}] :
    /\ announcementsCol' = UpdateAnnouncementOutcome(announcementsCol, id, b).col
    /\ UNCHANGED <<bookingsCol, usersCol, courtsCol, couponsCol, nextId, statusTask>>

\* DELETE /announcements/:id (lines 701-715).
DeleteAnnouncement ==
  \E id \in TargetIds(announcementsCol, nextId) :
    /\ announcementsCol' = DeleteOutcome(announcementsCol, id).col
    /\ UNCHANGED <<bookingsCol, usersCol, courtsCol, couponsCol, nextId, statusTask>>

\* ------------------------------------------------------------- payment intent
IntentBodies ==
  [price : {Num(49), Num(50), Undef, Str(<<"0", ".", "4", "9">>),
            Str(<<"0", ".", "4", "9", "9">>), Str(<<"a", "b", "c">>)},
   bookingId : {1}]
  \cup {[price |-> Num(2000), bookingId |-> NoId]}

\* The third digit of the fraction of the number parseFloat reads from s, 0
\* when there is none.
ThirdDigit(s) ==
  LET start == IF Len(s) >= 1 /\ (s[1] = "-" \/ s[1] = "+") THEN 2 ELSE 1
      dot == start + ReadDigits(s, start, 0, 0)[2]
  IN IF /\ dot + 3 <= Len(s) /\ s[dot] = "."
        /\ IsDigit(s[dot + 1]) /\ IsDigit(s[dot + 2]) /\ IsDigit(s[dot + 3])
     THEN DigitVal(s[dot + 3]) ELSE 0

\* Math.round(parseFloat(price) * 100) (line 187), in minor units: a half
\* rounds up; digits past the third of the fraction are dropped.
RoundedAmount(v) ==
  LET p == ParseFloat(v)
      d3 == IF v.t = "str" THEN ThirdDigit(v.s) ELSE 0
  IN IF p.nan THEN NaN
     ELSE IF v.t = "str" /\ Len(v.s) >= 1 /\ v.s[1] = "-"
     THEN Number(p.c - (IF d3 > 5 THEN 1 ELSE 0))
     ELSE Number(p.c + (IF d3 >= 5 THEN 1 ELSE 0))

\* POST /create-payment-intent (lines 184-214). gatewayOk:
\* stripe.paymentIntents.create returns, else it throws and the catch answers
\* 500. amount and bookingId are those of the intent the gateway created, 0
\* and NoId when it created none. The handler writes no collection.
CreatePaymentIntentOutcome(b, gatewayOk) ==
  LET amount == RoundedAmount(b.price) IN
  IF amount.nan \/ amount.c = 0 \/ amount.c < 50 THEN [code |-> 400, amount |-> 0, bookingId |-> NoId]
  ELSE IF b.bookingId = NoId THEN [code |-> 400, amount |-> 0, bookingId |-> NoId]
  ELSE IF ~gatewayOk THEN [code |-> 500, amount |-> 0, bookingId |-> NoId]
  ELSE [code |-> 200, amount |-> amount.c, bookingId |-> b.bookingId]

CreatePaymentIntent ==
  \E b \in IntentBodies, gatewayOk \in BOOLEAN :
    /\ gatewayOk \/ b.price = Num(50)
    /\ CreatePaymentIntentOutcome(b, gatewayOk).code \in {200, 400, 500}
    /\ UNCHANGED vars

Next ==
  \/ CreateBooking
  \/ SetBookingStatus
  \/ DeleteBooking
  \/ PutBookingPayment
  \/ StripeWebhook
  \/ PaymentSuccess
  \/ CreateUser
  \/ DeleteUser
  \/ CreateCourt
  \/ UpdateCourt
  \/ DeleteCourt
  \/ CreateCoupon
  \/ UpdateCoupon
  \/ DeleteCoupon
  \/ ValidateCoupon
  \/ CreateAnnouncement
  \/ UpdateAnnouncement
  \/ DeleteAnnouncement
  \/ CreatePaymentIntent

Spec == Init /\ [][Next]_vars

\* ------------------------------------------------------------- interleaving
\* PUT /bookings/:id/status as the event loop runs it: the handler gives way
\* at each await, and the handler of another request may run in between.

\* The handler has answered.
Answered(code, matched, promoted) ==
  [Idle EXCEPT !.pc = "done", !.code = code, !.matched = matched, !.promoted = promoted]

\* Lines 404-412: the check of the status, new ObjectId(id), findOne.
StatusFind ==
  \E b \in StatusBodies(TargetIds(bookingsCol, nextId), DOMAIN usersCol \cup {BadId}) :
    /\ statusTask.pc \in {"idle", "done"}
    /\ statusTask' =
         IF b.status \notin {"Approved", "Rejected"} THEN Answered(400, FALSE, FALSE)
         ELSE IF ~IsObjectId(b.id) THEN Answered(500, FALSE, FALSE)
         ELSE IF b.id \notin DOMAIN bookingsCol THEN Answered(404, FALSE, FALSE)
         ELSE [Idle EXCEPT !.pc = "found", !.id = b.id, !.status = b.status,
                           !.userEmail = b.userEmail, !.userId = b.userId,
                           !.bookingEmail = bookingsCol[b.id].userEmail]
    /\ UNCHANGED <<bookingsCol, usersCol, courtsCol, couponsCol, announcementsCol, nextId>>

\* Line 414: updateOne({_id}, {$set: {status}}); its result is not looked at.
StatusUpdate ==
  /\ statusTask.pc = "found"
  /\ bookingsCol' =
       IF statusTask.id \in DOMAIN bookingsCol
       THEN UpdateOne(bookingsCol, statusTask.id,
                      StatusSet(bookingsCol[statusTask.id], statusTask.status))
       ELSE bookingsCol
  /\ statusTask' = [statusTask EXCEPT !.pc = "updated",
                                      !.matched = MatchedCount(bookingsCol, statusTask.id) = 1]
  /\ UNCHANGED <<usersCol, courtsCol, couponsCol, announcementsCol, nextId>>

\* Lines 416-422: the email to promote, from the request, the booking that
\* findOne returned or the user of the supplied id; the answer when there is
\* nothing to promote.
StatusResolve ==
  /\ statusTask.pc = "updated"
  /\ LET booking == [userEmail |-> statusTask.bookingEmail]
         email == EmailToUpdate(statusTask.userEmail, booking, statusTask.userId, usersCol)
     IN statusTask' =
          IF /\ FirstEmail(statusTask.userEmail, booking) = ""
             /\ statusTask.userId # NoId /\ ~IsObjectId(statusTask.userId)
          THEN Answered(500, statusTask.matched, FALSE)
          ELSE IF Promotes(statusTask.status, email)
          THEN [statusTask EXCEPT !.pc = "resolved", !.emailToUpdate = email]
          ELSE Answered(200, statusTask.matched, FALSE)
  /\ UNCHANGED <<bookingsCol, usersCol, courtsCol, couponsCol, announcementsCol, nextId>>

\* Lines 423-429: updateOne({email}, {$set: {role: "member"}}) and the answer.
StatusPromote ==
  /\ statusTask.pc = "resolved"
  /\ usersCol' = SetRole(usersCol, statusTask.emailToUpdate, "member")
  /\ statusTask' =
       Answered(200, statusTask.matched,
                \E u \in DOMAIN usersCol : usersCol[u].email = statusTask.emailToUpdate)
  /\ UNCHANGED <<bookingsCol, courtsCol, couponsCol, announcementsCol, nextId>>

\* The requests that write bookings or users, each between two awaits of the
\* PUT /bookings/:id/status in flight.
NextInterleaved ==
  \/ StatusFind
  \/ StatusUpdate
  \/ StatusResolve
  \/ StatusPromote
  \/ CreateBooking
  \/ DeleteBooking
  \/ PutBookingPayment
  \/ StripeWebhook
  \/ PaymentSuccess
  \/ CreateUser
  \/ DeleteUser

SpecInterleaved == Init /\ [][NextInterleaved]_vars

\* ------------------------------------------------------------- properties
PaidUp(ps) == ps \in {"completed", "paid"}

\* The bookings a step keeps.
Kept == DOMAIN bookingsCol \cap DOMAIN bookingsCol'

\* Every body of POST /bookings the properties are tried on.
AllBookingBodies == BookingBodies \cup {[GoodBooking EXCEPT !.price = p] : p \in PriceInputs}

AllFieldsPresent(b) ==
  /\ b.courtId # NoId /\ b.userId # "" /\ b.userEmail # "" /\ b.date # ""
  /\ b.slots.t # "undef" /\ b.price.t # "undef"

NonEmptySlots(b) == b.slots.t = "arr" /\ Len(b.slots.s) > 0

PricePositive(v) == ~ParseFloat(v).nan /\ ParseFloat(v).c > 0

\* A delivery with a good signature of payment_intent.succeeded for a booking
\* of the store.
GoodDeliveries ==
  {ev \in Events(ParamIds) :
     ev.sigOk /\ ev.type = SucceededType /\ ev.bookingId \in DOMAIN bookingsCol}

\* C1: once a booking's paymentStatus is completed or paid, no step sets it
\* back to pending.
C1_PaymentStatusMonotone ==
  [][\A x \in Kept :
       PaidUp(bookingsCol[x].paymentStatus) => bookingsCol'[x].paymentStatus # "pending"]_vars

\* C2: a step that changes the paymentStatus of a booking is a step of the
\* webhook handler or of /payment-success.
C2_ExclusiveWriter ==
  [][(\E x \in Kept : bookingsCol'[x].paymentStatus # bookingsCol[x].paymentStatus)
       => (StripeWebhook \/ PaymentSuccess)]_vars

\* C3: a correctly signed payment_intent.succeeded event for an existing
\* booking leaves the booking Confirmed and completed and is answered 200,
\* whatever the booking's status and paymentStatus were.
C3_WebhookSuccessEffect ==
  \A ev \in GoodDeliveries :
    LET o == StripeWebhookOutcome(bookingsCol, ev) IN
    /\ o.code = 200
    /\ o.bookings[ev.bookingId].status = "Confirmed"
    /\ o.bookings[ev.bookingId].paymentStatus = "completed"

\* A booking that was paid by the direct callback and then confirmed by the
\* webhook.
C3_Witness ==
  \E x \in DOMAIN bookingsCol :
    /\ bookingsCol[x].status = "Confirmed"
    /\ bookingsCol[x].paymentStatus = "completed"
    /\ bookingsCol[x].transactionId = "tx_1"

\* C4: a correctly signed payment_intent.succeeded event for an existing
\* booking, delivered and answered 200, inserts exactly one payment record,
\* which references the booking and carries the event's id and its amount
\* (2000 minor units are 20.00).
C4_PaymentRecordInserted ==
  \A ev \in GoodDeliveries :
    LET o == StripeWebhookOutcome(bookingsCol, ev) IN
    o.code = 200 =>
      /\ Cardinality(o.payments) = 1
      /\ \A r \in o.payments :
           r.bookingId = ev.bookingId /\ r.transactionId = ev.id /\ r.amount = Number(ev.amount)

\* C5: the same correctly signed payment_intent.succeeded event delivered
\* twice for an existing booking: the booking is Confirmed and completed after
\* the first delivery, the second leaves the store as the first left it and is
\* answered 200.
C5_WebhookReplay ==
  \A ev \in GoodDeliveries :
    LET first == StripeWebhookOutcome(bookingsCol, ev)
        second == StripeWebhookOutcome(first.bookings, ev)
    IN /\ first.bookings[ev.bookingId].paymentStatus = "completed"
       /\ first.bookings[ev.bookingId].status = "Confirmed"
       /\ second.bookings = first.bookings
       /\ second.code = 200

\* A booking the webhook has confirmed, where a second delivery changes
\* nothing.
C5_Witness ==
  \E x \in DOMAIN bookingsCol :
    /\ bookingsCol[x] = WebhookSet(bookingsCol[x])
    /\ \E ev \in GoodDeliveries : ev.bookingId = x

\* C6: a delivery whose signature does not verify is answered 400 and leaves
\* every booking as it was, whatever its payload; the handler writes no other
\* collection.
C6_InvalidSignatureRejected ==
  \A ev \in Events(ParamIds) :
    ~ev.sigOk =>
      LET o == StripeWebhookOutcome(bookingsCol, ev) IN
      o.code = 400 /\ o.bookings = bookingsCol /\ o.payments = {}

\* A pending booking and a user in the store: a payload naming the booking
\* would confirm it, were the signature not checked.
C6_Witness ==
  /\ \E x \in DOMAIN bookingsCol :
       /\ bookingsCol[x].paymentStatus = "pending"
       /\ \E ev \in Events(ParamIds) :
            ~ev.sigOk /\ ev.type = SucceededType /\ ev.bookingId = x
  /\ usersCol # Empty

\* The email C7 says is promoted: the supplied contact, else the booking's
\* stored email, else the email of the user of the supplied id.
C7_Email(b) ==
  IF b.userEmail # "" THEN b.userEmail
  ELSE IF bookingsCol[b.id].userEmail # "" THEN bookingsCol[b.id].userEmail
  ELSE IF b.userId \in DOMAIN usersCol THEN usersCol[b.userId].email
  ELSE ""

\* C7: setBookingStatus(id, Approved, contact?, userId?) on an existing
\* booking leaves it Approved and is answered 200; every user of the resolved
\* email has role member afterwards and no other user changes; with no email
\* resolved no user changes.
C7_ApprovalPromotes ==
  \A b \in StatusBodies(ParamIds, ParamIds) :
    (b.status = "Approved" /\ b.id \in DOMAIN bookingsCol) =>
      LET o == SetBookingStatusOutcome(bookingsCol, usersCol, b)
          email == C7_Email(b)
      IN /\ o.code = 200
         /\ o.bookings[b.id].status = "Approved"
         /\ DOMAIN o.users = DOMAIN usersCol
         /\ \A u \in DOMAIN usersCol :
              IF email # "" /\ usersCol[u].email = email
              THEN o.users[u] = [usersCol[u] EXCEPT !.role = "member"]
              ELSE o.users[u] = usersCol[u]

\* An approved booking whose stored email is a@x.io, and the user of the
\* supplied contact b@x.io promoted.
C7_Witness ==
  /\ \E x \in DOMAIN bookingsCol :
       bookingsCol[x].status = "Approved" /\ bookingsCol[x].userEmail = "a@x.io"
  /\ \E u \in DOMAIN usersCol : usersCol[u].email = "b@x.io" /\ usersCol[u].role = "member"

C9_Inserted(b) ==
  LET o == CreateBookingOutcome(bookingsCol, nextId, b) IN
  /\ o.code = 201
  /\ nextId \notin DOMAIN bookingsCol
  /\ DOMAIN o.bookings = DOMAIN bookingsCol \cup {nextId}
  /\ o.bookings[nextId].status = "pending"
  /\ o.bookings[nextId].paymentStatus = "pending"
  /\ \A x \in DOMAIN bookingsCol : o.bookings[x] = bookingsCol[x]

\* C9 as claimed: every createBooking with all fields present, a non-empty
\* slot sequence and a price > 0 inserts exactly one booking, pending and
\* pending, and changes no other booking.
C9_InitialBookingState ==
  \A b \in AllBookingBodies :
    (AllFieldsPresent(b) /\ NonEmptySlots(b) /\ PricePositive(b.price)) => C9_Inserted(b)

\* C9 as amended: the same, for a court id that is a well-formed ObjectId.
C9_InitialBookingStateWellFormed ==
  \A b \in AllBookingBodies :
    (AllFieldsPresent(b) /\ NonEmptySlots(b) /\ PricePositive(b.price)
       /\ IsObjectId(b.courtId)) => C9_Inserted(b)

\* A booking just created next to one that has moved on.
C9_Witness ==
  \E x, y \in DOMAIN bookingsCol :
    /\ x < y
    /\ bookingsCol[x].status # "pending"
    /\ bookingsCol[y].status = "pending" /\ bookingsCol[y].paymentStatus = "pending"

\* C10: a step of createBooking whose body misses a field, has slots that are
\* no non-empty sequence or a price that is no positive number is answered 400
\* and inserts nothing; so every booking of the store has a price > 0 and
\* non-empty slots.
C10_CreationValidated ==
  [][/\ \A b \in AllBookingBodies :
          (/\ ~(AllFieldsPresent(b) /\ NonEmptySlots(b) /\ PricePositive(b.price))
           /\ bookingsCol' = CreateBookingOutcome(bookingsCol, nextId, b).bookings
           /\ UNCHANGED <<usersCol, courtsCol, couponsCol, announcementsCol>>)
            => /\ CreateBookingOutcome(bookingsCol, nextId, b).code = 400
               /\ bookingsCol' = bookingsCol
     /\ \A x \in DOMAIN bookingsCol' :
          /\ ~bookingsCol'[x].price.nan /\ bookingsCol'[x].price.c > 0
          /\ Len(bookingsCol'[x].slots) > 0]_vars

\* Every body of POST /payment-success the properties are tried on.
AllSuccessBodies == SuccessBodies(ParamIds \cup {nextId})

\* C11: /payment-success for the id of a stored booking leaves it paid, with
\* the supplied transactionId and a paid timestamp, its status and every
\* other booking as before; for an id that resolves to no booking it is
\* answered 404 and changes nothing; and whenever it is answered 404 nothing
\* has changed.
C11_DirectSuccessCallback ==
  \A b \in AllSuccessBodies, sameMs \in BOOLEAN :
    LET o == PaymentSuccessOutcome(bookingsCol, b, sameMs) IN
    /\ DOMAIN o.bookings = DOMAIN bookingsCol
    /\ o.code = 404 => o.bookings = bookingsCol
    /\ IF b.bookingId \in DOMAIN bookingsCol
       THEN /\ o.code \in {200, 404}
            /\ o.bookings[b.bookingId].paymentStatus = "paid"
            /\ o.bookings[b.bookingId].transactionId = b.transactionId
            /\ o.bookings[b.bookingId].paidAt # 0 - 1
            /\ o.bookings[b.bookingId].status = bookingsCol[b.bookingId].status
            /\ \A x \in DOMAIN bookingsCol \ {b.bookingId} : o.bookings[x] = bookingsCol[x]
       ELSE o.code = 404 /\ o.bookings = bookingsCol

\* The signed deliveries of payment_intent.succeeded whose metadata names no
\* booking of the store: no bookingId, a malformed one, one that matches
\* nothing.
LostDeliveries ==
  {ev \in Events(ParamIds \cup {nextId}) :
     ev.sigOk /\ ev.type = SucceededType /\ ev.bookingId \notin DOMAIN bookingsCol}

\* The signed deliveries of another event type.
OtherDeliveries ==
  {ev \in Events(ParamIds \cup {nextId}) : ev.sigOk /\ ev.type # SucceededType}

\* C12: a correctly signed payment_intent.succeeded event without a booking
\* id, or with one that resolves to no booking, is answered with a failure
\* status (the handler does answer), changes no booking and inserts no payment
\* record; a correctly signed event of another type is answered 200 and
\* changes nothing.
C12_WebhookLocalFailure ==
  /\ \A ev \in LostDeliveries :
       LET o == StripeWebhookOutcome(bookingsCol, ev) IN
       o.code >= 400 /\ o.bookings = bookingsCol /\ o.payments = {}
  /\ \A ev \in OtherDeliveries :
       LET o == StripeWebhookOutcome(bookingsCol, ev) IN
       o.code = 200 /\ o.bookings = bookingsCol /\ o.payments = {}

\* A store with a pending booking next to the id of a booking that was
\* deleted: a delivery for that id resolves to nothing.
C12_Witness ==
  /\ \E x \in DOMAIN bookingsCol : bookingsCol[x].paymentStatus = "pending"
  /\ \E ev \in LostDeliveries :
       /\ IsObjectId(ev.bookingId) /\ ev.bookingId < nextId
       /\ ev.bookingId \notin
            DOMAIN usersCol \cup DOMAIN courtsCol \cup DOMAIN couponsCol
              \cup DOMAIN announcementsCol

\* The price of a body in thousandths of the currency unit.
C13_Thousandths(v) ==
  ParseFloat(v).c * 10 + (IF v.t = "str" THEN ThirdDigit(v.s) ELSE 0)

\* C13: requestPaymentIntent with a price below 0.50 or without a bookingId is
\* answered 400 and creates no intent; with a price of at least 0.50 and a
\* bookingId, and the gateway answering, it is answered 200 and the intent is
\* for round(price * 100) minor units with the bookingId in its metadata; and
\* a step of requestPaymentIntent changes no booking.
C13_PaymentIntentFloor ==
  /\ [](\A b \in IntentBodies, gatewayOk \in BOOLEAN :
          LET o == CreatePaymentIntentOutcome(b, gatewayOk) IN
          /\ ((~ParseFloat(b.price).nan /\ C13_Thousandths(b.price) < 500) \/ b.bookingId = NoId)
               => (o.code = 400 /\ o.amount = 0 /\ o.bookingId = NoId)
          /\ (~ParseFloat(b.price).nan /\ C13_Thousandths(b.price) >= 500
                /\ b.bookingId # NoId /\ gatewayOk)
               => /\ o.code = 200
                  /\ o.amount = RoundedAmount(b.price).c
                  /\ o.bookingId = b.bookingId)
  /\ [][CreatePaymentIntent => bookingsCol' = bookingsCol]_vars

\* C14: a PUT /bookings/:id/status that is answered 200 and has promoted a
\* user to member has written the status to a booking that was in the store
\* when updateOne ran, whatever requests ran between its awaits.
C14_PromotionImpliesWrite ==
  (statusTask.pc = "done" /\ statusTask.code = 200 /\ statusTask.promoted)
    => statusTask.matched

=============================================================================
